---- MODULE Spec2Model ----
(***************************************************************************)
(* Model of the application functions SDK core:                            *)
(*   - appsdk/backgroundpublisher.go : the Background Publisher, a thin    *)
(*     producer handle over a buffered Go channel;                         *)
(*   - the MQTT Trigger (package mqtt): Initialize, onConnectHandler,      *)
(*     messageHandler and the deferred teardown;                           *)
(*   - the Runtime's execution of the pipeline for one message;            *)
(*   - the HTTP sender (HTTPPost, HTTPPut) with its retry data;            *)
(*   - appsdk/configurable.go : the builders of the configurable pipeline; *)
(*   - the Batch Accumulator under the count and time policy.              *)
(* Each component has its own specification; the others stand by.          *)
(***************************************************************************)
EXTENDS Integers, Sequences, FiniteSets, TLC

\* ------------------------------------------------------------------ bounds
NumProducers == 2      \* goroutines calling Publish
MaxCapacity  == 1      \* largest capacity given to newBackgroundPublisher
MaxCalls     == 3      \* Publish calls made in one run, all producers together

MaxMsgs      == 2      \* inbound MQTT messages delivered in one run

MaxPipelineLen == 3    \* functions in the longest pipeline

NumInvokers  == 2      \* handler tasks whose invocations reach the batch stage
MaxItems     == 3      \* invocations that reach the batch stage in one run
MaxThreshold == 2      \* largest count threshold configured

Producers == 1 .. NumProducers

\* clients.ContentTypeJSON / clients.ContentTypeCBOR
ContentTypeJSON == "application/json"
ContentTypeCBOR == "application/cbor"

\* Arguments handed to Publish(payload, correlationID, contentType).
\* Payloads are byte sequences.
PublishInputs ==
    { [payload |-> <<1, 2>>,     correlationID |-> "id-1", contentType |-> ContentTypeCBOR],
      [payload |-> <<123, 125>>, correlationID |-> "id-2", contentType |-> ContentTypeJSON] }

\* byte('{')
OpenBrace == 123

\* Payloads the broker delivers: empty, {"a":1}, 0x01 0x02, and " {".
Payloads ==
    { <<>>,
      <<123, 34, 97, 34, 58, 49, 125>>,
      <<1, 2>>,
      <<32, 123>> }

\* Context.OutputData left behind by the pipeline.
Outputs == { <<>>, <<111>>, <<112, 113>> }

\* Values of the trigger's configuration.
SubscribeTopics == { "", "edgex/in" }
PublishTopics   == { "", "edgex/out" }
BrokerUrls      == { "tcp://broker:1883", "tcp://%zz" }
ConnectTimeouts == { "", "5s", "soon" }

\* url.Parse and time.ParseDuration on the values above.
UrlParses(u) == u = "tcp://broker:1883"
DurationParses(d) == d = "5s"

NilClient == 0
TheClient == 1         \* the client the factory creates

ErrNil          == "nil"
ErrBackground   == "background publishing not supported for services using MQTT trigger"
ErrMissingTopic == "missing SubscribeTopic for MQTT Trigger. Must be present in [Binding] section."
ErrBrokerUrl    == "invalid MQTT Broker Url"
ErrTimeout      == "invalid MQTT ConnectTimeout"
ErrCreate       == "unable to create secure MQTT Client"
ErrConnect      == "could not connect to broker for MQTT trigger"

VARIABLES
    \* ---- MQTT Trigger
    configuration,     \* Binding.SubscribeTopic, Binding.PublishTopic, MqttBroker.Url, MqttBroker.ConnectTimeout
    triggerPc,         \* Initialize: "start" (not called), "connected" (past Connect), "returned"
    initBackground,    \* the background argument Initialize was called with: "nil" or "chan" ("unset" before)
    initErr,           \* the error Initialize returned
    initDeferred,      \* whether Initialize returned a teardown action
    triggerMqttClient, \* trigger.mqttClient
    clientStatus,      \* the created client: "absent", "created", "connected", "connectFailed", "disconnected"
    factoryCalls,      \* calls of mqttFactory.Create
    connectCalls,      \* calls of mqttClient.Connect
    onConnectPending,  \* the library has yet to run the OnConnect callback
    subscribeState,    \* "none", "subscribed", "failed"
    disconnects,       \* Disconnect calls: the client and the caller
    tornDown,          \* the teardown action has run
    handlers,          \* one record per messageHandler invocation, in order of arrival
    crashed,           \* the process died of a panic
    \* ---- Background Publisher
    capacity,      \* cap of the channel made by newBackgroundPublisher
    buf,           \* the channel's buffer, oldest first
    sendq,         \* the channel's queue of blocked senders, oldest first
    pubState,      \* per producer: "idle" (not inside Publish) or "blocked" (parked in the send)
    ncalls,        \* per producer: Publish calls made
    nreturned,     \* per producer: Publish calls that returned
    received,      \* what the single consumer took off the channel, in order
    \* ---- Runtime
    pipelineLen,       \* number of functions in the configured pipeline
    rtPc,              \* one invocation: "idle", "running", "stopped", "completed", "responded"
    rtExecuted,        \* the functions executed, in order, each with what it returned
    rtOutputData,      \* the Context's output data
    rtMessageError,    \* what ProcessMessage returns to the trigger
    rtPublishes,       \* the response publishes the trigger made for the invocation
    \* ---- HTTP sender
    httpSender,        \* HTTPSender: URL, MimeType, PersistOnError, SecretHeaderName, SecretPath
    httpPc,            \* "built" (no call yet) or "returned" (the last call returned)
    httpMethod,        \* the method of the last call
    httpInput,         \* the input of the last call
    httpContinue,      \* the call's first result
    httpErr,           \* the error the call returned, ErrNil if it returned none
    httpRetryData,     \* the Context's retry data after the call
    httpRequests,      \* the requests that reached the endpoint during the call
    \* ---- configurable pipeline builders
    cfgStage,          \* the builder called, "" before the call
    cfgParameters,     \* the parameters map it was called with
    cfgResult,         \* what it returned
    \* ---- Batch Accumulator (count and time)
    batchThreshold,    \* the configured count threshold
    batchBuffer,       \* the payloads received and not yet flushed, oldest first
    batchGuard,        \* the task that holds the exclusive-access guard, NoTask if none
    taskPc,            \* per task: "idle", "appended" (invocation), "joined" (about to emit)
    taskJoined,        \* per task: the batch it is about to emit
    appended,          \* number of payloads appended so far; the k-th is payload k
    emitted,           \* the batches emitted, in order, each with the task that emitted it
    lastFire           \* what the last timer fire found: "none" yet, "empty", "flush"

bpvars == <<capacity, buf, sendq, pubState, ncalls, nreturned, received>>

mqttvars == <<configuration, triggerPc, initBackground, initErr, initDeferred,
              triggerMqttClient, clientStatus, factoryCalls, connectCalls,
              onConnectPending, subscribeState, disconnects, tornDown, handlers, crashed>>

rtvars == <<pipelineLen, rtPc, rtExecuted, rtOutputData, rtMessageError, rtPublishes>>

httpvars == <<httpSender, httpPc, httpMethod, httpInput, httpContinue, httpErr,
              httpRetryData, httpRequests>>

vars == <<configuration, triggerPc, initBackground, initErr, initDeferred,
          triggerMqttClient, clientStatus, factoryCalls, connectCalls,
          onConnectPending, subscribeState, disconnects, tornDown, handlers, crashed,
          capacity, buf, sendq, pubState, ncalls, nreturned, received,
          pipelineLen, rtPc, rtExecuted, rtOutputData, rtMessageError, rtPublishes,
          httpSender, httpPc, httpMethod, httpInput, httpContinue, httpErr,
          httpRetryData, httpRequests,
          cfgStage, cfgParameters, cfgResult,
          batchThreshold, batchBuffer, batchGuard, taskPc, taskJoined, appended,
          emitted, lastFire>>

\* What each component leaves alone.
cfgvars == <<cfgStage, cfgParameters, cfgResult>>

batchvars == <<batchThreshold, batchBuffer, batchGuard, taskPc, taskJoined, appended,
               emitted, lastFire>>

outsideBP      == <<mqttvars, rtvars, httpvars, cfgvars, batchvars>>
outsideMqtt    == <<bpvars, rtvars, httpvars, cfgvars, batchvars>>
outsideRuntime == <<bpvars, httpvars, cfgvars, batchvars>>
outsideHttp    == <<bpvars, mqttvars, rtvars, cfgvars, batchvars>>
outsideCfg     == <<bpvars, mqttvars, rtvars, httpvars, batchvars>>
outsideBatch   == <<bpvars, mqttvars, rtvars, httpvars, cfgvars>>

\* ------------------------------------------------------------------ helpers
RECURSIVE SumOver(_, _)
SumOver(f, S) ==
    IF S = {} THEN 0
    ELSE LET x == CHOOSE y \in S : TRUE IN f[x] + SumOver(f, S \ {x})

TotalCalls == SumOver(ncalls, Producers)

Range(s) == { s[i] : i \in 1 .. Len(s) }

\* ================================================== Background Publisher ==

\* types.MessageEnvelope literal built by Publish.  A plausible slip: the two
\* string arguments land in each other's field.
MessageEnvelopeSwapped(payload, correlationID, contentType) ==
    [CorrelationID |-> contentType, Payload |-> payload, ContentType |-> correlationID]

MessageEnvelope(payload, correlationID, contentType) ==
    [CorrelationID |-> correlationID, Payload |-> payload, ContentType |-> contentType]

\* A send that never parks: the element is appended whatever the buffer holds.
ChanSendUnbounded(p, item) ==
    /\ buf' = Append(buf, item)
    /\ nreturned' = [nreturned EXCEPT ![p] = @ + 1]
    /\ UNCHANGED <<sendq, pubState>>

\* A non-blocking send (select with a default branch): a full buffer drops the element.
ChanSendOrDrop(p, item) ==
    /\ buf' = IF Len(buf) < capacity THEN Append(buf, item) ELSE buf
    /\ nreturned' = [nreturned EXCEPT ![p] = @ + 1]
    /\ UNCHANGED <<sendq, pubState>>

\* pub.output <- outputEnvelope on a channel of the given capacity: with room
\* in the buffer the element is appended and the send returns; otherwise the
\* sender parks on the channel's send queue until a receive takes it over.
ChanSend(p, item) ==
    IF Len(buf) < capacity
    THEN /\ buf' = Append(buf, item)
         /\ nreturned' = [nreturned EXCEPT ![p] = @ + 1]
         /\ UNCHANGED <<sendq, pubState>>
    ELSE /\ sendq' = Append(sendq, [item EXCEPT !.parked = TRUE])
         /\ pubState' = [pubState EXCEPT ![p] = "blocked"]
         /\ UNCHANGED <<buf, nreturned>>

\* backgroundPublisher.Publish.  Each element on the channel carries, next to
\* the envelope, a record of the call that made it (producer, call number,
\* arguments, whether the send had to park); the program reads the envelope only.
Publish(p) ==
    \E in \in PublishInputs :
        /\ pubState[p] = "idle"
        /\ TotalCalls < MaxCalls
        /\ LET outputEnvelope == MessageEnvelope(in.payload, in.correlationID, in.contentType)
               item == [env |-> outputEnvelope, src |-> p, seq |-> ncalls[p] + 1,
                        args |-> in, parked |-> FALSE]
           IN  /\ ncalls' = [ncalls EXCEPT ![p] = @ + 1]
               /\ ChanSend(p, item)
        /\ UNCHANGED <<capacity, received>>
        /\ UNCHANGED outsideBP

\* The single consumer's receive from the channel returned by
\* newBackgroundPublisher.  A receive takes the oldest buffered element; the
\* oldest parked sender, if any, has its element moved into the freed slot and
\* is woken.  On an unbuffered channel the element passes straight from the
\* oldest parked sender to the receiver.
Receive ==
    /\ \/ Len(buf) > 0
       \/ Len(sendq) > 0
    /\ IF Len(buf) > 0
       THEN /\ received' = Append(received, Head(buf))
            /\ IF Len(sendq) > 0
               THEN /\ buf' = Append(Tail(buf), Head(sendq))
                    /\ sendq' = Tail(sendq)
                    /\ pubState' = [pubState EXCEPT ![Head(sendq).src] = "idle"]
                    /\ nreturned' = [nreturned EXCEPT ![Head(sendq).src] = @ + 1]
               ELSE /\ buf' = Tail(buf)
                    /\ UNCHANGED <<sendq, pubState, nreturned>>
       ELSE /\ received' = Append(received, Head(sendq))
            /\ sendq' = Tail(sendq)
            /\ pubState' = [pubState EXCEPT ![Head(sendq).src] = "idle"]
            /\ nreturned' = [nreturned EXCEPT ![Head(sendq).src] = @ + 1]
            /\ UNCHANGED buf
    /\ UNCHANGED <<capacity, ncalls>>
    /\ UNCHANGED outsideBP

\* newBackgroundPublisher(capacity): an empty channel of that capacity, one
\* end handed to the consumer and the other wrapped in the publisher.
InitBP ==
    /\ capacity \in 0 .. MaxCapacity
    /\ buf = <<>>
    /\ sendq = <<>>
    /\ pubState = [p \in Producers |-> "idle"]
    /\ ncalls = [p \in Producers |-> 0]
    /\ nreturned = [p \in Producers |-> 0]
    /\ received = <<>>

NextBP ==
    \/ \E p \in Producers : Publish(p)
    \/ Receive

\* ========================================================= MQTT Trigger ==

\* NewTrigger: the configuration is stored, the client handle is nil.
InitMqtt ==
    /\ configuration \in [SubscribeTopic : SubscribeTopics, PublishTopic : PublishTopics,
                          Url : BrokerUrls, ConnectTimeout : ConnectTimeouts]
    /\ triggerPc = "start"
    /\ initBackground = "unset"
    /\ initErr = ErrNil
    /\ initDeferred = FALSE
    /\ triggerMqttClient = NilClient
    /\ clientStatus = "absent"
    /\ factoryCalls = 0
    /\ connectCalls = 0
    /\ onConnectPending = FALSE
    /\ subscribeState = "none"
    /\ disconnects = <<>>
    /\ tornDown = FALSE
    /\ handlers = <<>>
    /\ crashed = FALSE

\* A trigger that is constructed and never initialized.
MqttNotStarted ==
    /\ InitMqtt
    /\ configuration = [SubscribeTopic |-> "edgex/in", PublishTopic |-> "edgex/out",
                        Url |-> "tcp://broker:1883", ConnectTimeout |-> ""]

\* Initialize returns (nil, err).
ReturnError(err) ==
    /\ triggerPc' = "returned"
    /\ initErr' = err
    /\ initDeferred' = FALSE

\* The check on the background channel left out.
BackgroundGivenIgnored(background) == FALSE

\* background != nil
BackgroundGiven(background) == background # "nil"

\* The check on the subscribe topic left out.
TopicMissingIgnored(topic) == FALSE

\* len(topic) == 0
TopicMissing(topic) == topic = ""

\* The connect token waited for, its error not looked at.
ConnectFailedIgnored(tokenError) == FALSE

\* token.Wait() && token.Error() != nil
ConnectFailed(tokenError) == tokenError # ErrNil

\* Initialize, up to and including the wait on the connect token.  The
\* outcomes of mqttFactory.Create and of Connect are the environment's.  On a
\* successful connect the library schedules the OnConnect callback, which runs
\* on its own goroutine.
Initialize(background) ==
    /\ ~crashed
    /\ triggerPc = "start"
    /\ initBackground' = background
    /\ IF BackgroundGiven(background)
       THEN /\ ReturnError(ErrBackground)
            /\ UNCHANGED <<clientStatus, factoryCalls, connectCalls, onConnectPending>>
       ELSE IF TopicMissing(configuration.SubscribeTopic)
       THEN /\ ReturnError(ErrMissingTopic)
            /\ UNCHANGED <<clientStatus, factoryCalls, connectCalls, onConnectPending>>
       ELSE IF ~UrlParses(configuration.Url)
       THEN /\ ReturnError(ErrBrokerUrl)
            /\ UNCHANGED <<clientStatus, factoryCalls, connectCalls, onConnectPending>>
       ELSE IF configuration.ConnectTimeout # "" /\ ~DurationParses(configuration.ConnectTimeout)
       THEN /\ ReturnError(ErrTimeout)
            /\ UNCHANGED <<clientStatus, factoryCalls, connectCalls, onConnectPending>>
       ELSE /\ factoryCalls' = factoryCalls + 1
            /\ \E createError \in {ErrNil, "no credentials"} :
                 IF createError # ErrNil
                 THEN /\ ReturnError(ErrCreate)
                      /\ UNCHANGED <<clientStatus, connectCalls, onConnectPending>>
                 ELSE /\ connectCalls' = connectCalls + 1
                      /\ \E tokenError \in {ErrNil, "network unreachable"} :
                           /\ clientStatus' = IF tokenError = ErrNil THEN "connected"
                                                                     ELSE "connectFailed"
                           /\ onConnectPending' = (tokenError = ErrNil)
                           /\ IF ConnectFailed(tokenError)
                              THEN ReturnError(ErrConnect)
                              ELSE /\ triggerPc' = "connected"
                                   /\ UNCHANGED <<initErr, initDeferred>>
    /\ UNCHANGED <<configuration, triggerMqttClient, subscribeState, disconnects,
                   tornDown, handlers, crashed>>
    /\ UNCHANGED outsideMqtt

\* Initialize after the connect: the teardown closure is made, the client is
\* stored in the trigger, and (deferred, nil) is returned.
InitializeReturn ==
    /\ ~crashed
    /\ triggerPc = "connected"
    /\ triggerMqttClient' = TheClient
    /\ triggerPc' = "returned"
    /\ initErr' = ErrNil
    /\ initDeferred' = TRUE
    /\ UNCHANGED <<configuration, initBackground, clientStatus, factoryCalls, connectCalls,
                   onConnectPending, subscribeState, disconnects, tornDown, handlers, crashed>>
    /\ UNCHANGED outsideMqtt

\* onConnectHandler: subscribe; on failure disconnect, log and return.  A
\* subscribe on a client that is no longer connected fails.
onConnectHandler ==
    /\ ~crashed
    /\ onConnectPending
    /\ onConnectPending' = FALSE
    /\ \E tokenError \in {ErrNil, "not authorized"} :
         IF tokenError = ErrNil /\ clientStatus = "connected"
         THEN /\ subscribeState' = "subscribed"
              /\ UNCHANGED <<clientStatus, disconnects>>
         ELSE /\ subscribeState' = "failed"
              /\ clientStatus' = "disconnected"
              /\ disconnects' = Append(disconnects, [client |-> TheClient, by |-> "onConnectHandler"])
    /\ UNCHANGED <<configuration, triggerPc, initBackground, initErr, initDeferred,
                   triggerMqttClient, factoryCalls, connectCalls, tornDown, handlers, crashed>>
    /\ UNCHANGED outsideMqtt

\* The closure reading the field when it is made, which is before the client
\* is stored in it.
DeferredClientCapturedEarly == NilClient

\* trigger.mqttClient, read by the teardown closure when it runs.
DeferredClient == triggerMqttClient

\* The teardown action returned by Initialize, invoked once at shutdown:
\* trigger.mqttClient.Disconnect(0).  A nil client is a nil dereference.
Deferred ==
    /\ ~crashed
    /\ initDeferred
    /\ ~tornDown
    /\ tornDown' = TRUE
    /\ IF DeferredClient = NilClient
       THEN /\ crashed' = TRUE
            /\ UNCHANGED <<clientStatus, disconnects>>
       ELSE /\ clientStatus' = "disconnected"
            /\ disconnects' = Append(disconnects, [client |-> DeferredClient, by |-> "deferred"])
            /\ UNCHANGED crashed
    /\ UNCHANGED <<configuration, triggerPc, initBackground, initErr, initDeferred,
                   triggerMqttClient, factoryCalls, connectCalls, onConnectPending,
                   subscribeState, handlers>>
    /\ UNCHANGED outsideMqtt

\* The comparison turned round.
ClassifyContentTypeInverted(data) ==
    IF data[1] # OpenBrace THEN ContentTypeJSON ELSE ContentTypeCBOR

\* contentType := ContentTypeJSON; if data[0] != byte('{') { contentType = ContentTypeCBOR }
ClassifyContentType(data) ==
    IF data[1] # OpenBrace THEN ContentTypeCBOR ELSE ContentTypeJSON

\* A generator that hands out the same identifier every time.
NewUuidRepeated(n) == <<"uuid", 1>>

\* uuid.New().String(): the n-th identifier generated.
NewUuid(n) == <<"uuid", n>>

\* The handlers that have returned (what the log shows when the next message
\* is delivered).
HandlersReturned(hs) == { g \in 1 .. Len(hs) : hs[g].pc = "done" }

\* messageHandler, from the delivery of a message by the subscribed client to
\* the call of ProcessMessage.  data[0] on an empty payload is an index out
\* of range: the panic ends the process.
messageHandlerStart ==
    \E data \in Payloads :
        /\ ~crashed
        /\ subscribeState = "subscribed"
        /\ clientStatus = "connected"
        /\ Len(handlers) < MaxMsgs
        /\ IF Len(data) = 0
           THEN /\ crashed' = TRUE
                /\ UNCHANGED handlers
           ELSE LET contentType == ClassifyContentType(data)
                    correlationID == NewUuid(Len(handlers) + 1)
                    edgexContext == [CorrelationID |-> correlationID, OutputData |-> <<>>]
                    envelope == [CorrelationID |-> correlationID,
                                 ContentType |-> contentType,
                                 Payload |-> data]
                IN  /\ handlers' = Append(handlers,
                                          [pc |-> "processing", data |-> data,
                                           edgexContext |-> edgexContext,
                                           envelope |-> envelope,
                                           messageError |-> ErrNil,
                                           publishes |-> <<>>,
                                           startedAfter |-> HandlersReturned(handlers)])
                    /\ UNCHANGED crashed
        /\ UNCHANGED <<configuration, triggerPc, initBackground, initErr, initDeferred,
                       triggerMqttClient, clientStatus, factoryCalls, connectCalls,
                       onConnectPending, subscribeState, disconnects, tornDown>>
        /\ UNCHANGED outsideMqtt

\* The error of ProcessMessage not looked at.
ShouldPublishIgnoringError(messageError, outputData, topic) ==
    Len(outputData) > 0 /\ topic # ""

\* messageError == nil, then len(edgexContext.OutputData) > 0 && len(topic) > 0
ShouldPublish(messageError, outputData, topic) ==
    /\ messageError = ErrNil
    /\ Len(outputData) > 0 /\ topic # ""

\* A publish that is made again when its token reports an error.
PublishResponseRetrying(attempt) ==
    IF attempt.tokenError # ErrNil THEN <<attempt, attempt>> ELSE <<attempt>>

\* token := trigger.mqttClient.Publish(topic, qos, retain, OutputData);
\* token.Wait(); a token error is logged.  The publishes made, in order.
PublishResponse(attempt) == <<attempt>>

\* messageHandler, from the return of ProcessMessage to its own return.  What
\* the pipeline returns and leaves in the Context is the pipeline's; a
\* publish on a client that is no longer connected fails, and a failed
\* publish is logged.
messageHandlerFinish(h) ==
    /\ ~crashed
    /\ h \in 1 .. Len(handlers)
    /\ handlers[h].pc = "processing"
    /\ \E messageError \in {ErrNil, "pipeline stopped"}, outputData \in Outputs,
          publishError \in {ErrNil, "publish timed out"} :
         LET topic == configuration.PublishTopic
             tokenError == IF clientStatus = "connected" THEN publishError ELSE "not connected"
             attempt == [topic |-> topic, data |-> outputData, tokenError |-> tokenError]
         IN  handlers' = [handlers EXCEPT ![h] =
                 [@ EXCEPT !.pc = "done",
                           !.messageError = messageError,
                           !.edgexContext = [@ EXCEPT !.OutputData = outputData],
                           !.publishes = IF ShouldPublish(messageError, outputData, topic)
                                         THEN PublishResponse(attempt) ELSE <<>>]]
    /\ UNCHANGED <<configuration, triggerPc, initBackground, initErr, initDeferred,
                   triggerMqttClient, clientStatus, factoryCalls, connectCalls,
                   onConnectPending, subscribeState, disconnects, tornDown, crashed>>
    /\ UNCHANGED outsideMqtt

\* ============================================================== Runtime ==
\* One invocation of the pipeline on the Context of one inbound message, and
\* the response the message handler makes of it.

\* What a pipeline function returns: (true, value) on success, (false, error)
\* on failure, (false, nil) to end the invocation without an error.
FunctionReturns ==
    { [shouldContinue |-> TRUE, result |-> v, err |-> ErrNil] : v \in Outputs } \cup
    { [shouldContinue |-> FALSE, result |-> <<>>, err |-> "function failed"],
      [shouldContinue |-> FALSE, result |-> <<>>, err |-> ErrNil] }

\* The chain goes on after any return that is not an error.
HaltsOnErrorOnly(ret) == ret.err # ErrNil

\* The Runtime halts the remaining chain when a function returns
\* shouldContinue = false.
Halts(ret) == ~ret.shouldContinue

\* A trigger that is initialized, connected and subscribed.
MqttRunning ==
    /\ configuration \in [SubscribeTopic : {"edgex/in"}, PublishTopic : PublishTopics,
                          Url : {"tcp://broker:1883"}, ConnectTimeout : {"5s"}]
    /\ triggerPc = "returned"
    /\ initBackground = "nil"
    /\ initErr = ErrNil
    /\ initDeferred = TRUE
    /\ triggerMqttClient = TheClient
    /\ clientStatus = "connected"
    /\ factoryCalls = 1
    /\ connectCalls = 1
    /\ onConnectPending = FALSE
    /\ subscribeState = "subscribed"
    /\ disconnects = <<>>
    /\ tornDown = FALSE
    /\ handlers = <<>>
    /\ crashed = FALSE

\* The pipeline is set once at startup; no message has arrived.
InitRuntime ==
    /\ pipelineLen \in 1 .. MaxPipelineLen
    /\ rtPc = "idle"
    /\ rtExecuted = <<>>
    /\ rtOutputData = <<>>
    /\ rtMessageError = ErrNil
    /\ rtPublishes = <<>>

\* A Runtime that is never invoked.
RuntimeNotStarted ==
    /\ InitRuntime
    /\ pipelineLen = 1

\* messageHandler calls ProcessMessage with a fresh Context and the Envelope.
ProcessMessage ==
    /\ rtPc = "idle"
    /\ rtPc' = "running"
    /\ UNCHANGED <<pipelineLen, rtExecuted, rtOutputData, rtMessageError, rtPublishes>>
    /\ UNCHANGED <<mqttvars, outsideRuntime>>

\* The Runtime executes the next function of the chain.  A function that
\* halts the chain ends the invocation, with its error if it returned one;
\* the result of the last function is written to the Context's output data.
ExecuteFunction ==
    /\ rtPc = "running"
    /\ Len(rtExecuted) < pipelineLen
    /\ \E ret \in FunctionReturns :
         LET k == Len(rtExecuted) + 1
         IN  /\ rtExecuted' = Append(rtExecuted, [fn |-> k, ret |-> ret])
             /\ IF Halts(ret)
                THEN /\ rtPc' = "stopped"
                     /\ rtMessageError' = ret.err
                     /\ UNCHANGED rtOutputData
                ELSE IF k = pipelineLen
                THEN /\ rtPc' = "completed"
                     /\ rtOutputData' = ret.result
                     /\ UNCHANGED rtMessageError
                ELSE UNCHANGED <<rtPc, rtOutputData, rtMessageError>>
    /\ UNCHANGED <<pipelineLen, rtPublishes>>
    /\ UNCHANGED <<mqttvars, outsideRuntime>>

\* messageHandler, from the return of ProcessMessage to its own return.
Respond ==
    /\ rtPc \in {"stopped", "completed"}
    /\ \E publishError \in {ErrNil, "publish timed out"} :
         LET topic == configuration.PublishTopic
             attempt == [topic |-> topic, data |-> rtOutputData, tokenError |-> publishError]
         IN  rtPublishes' = IF ShouldPublish(rtMessageError, rtOutputData, topic)
                            THEN PublishResponse(attempt) ELSE <<>>
    /\ rtPc' = "responded"
    /\ UNCHANGED <<pipelineLen, rtExecuted, rtOutputData, rtMessageError>>
    /\ UNCHANGED <<mqttvars, outsideRuntime>>

NextRuntime ==
    \/ ProcessMessage
    \/ ExecuteFunction
    \/ Respond

\* ========================================================== HTTP sender ==
\* HTTPSender.HTTPPost and HTTPSender.HTTPPut, called with a fresh Context,
\* against the endpoint and the secret store of the sender's tests.

\* const path, badPath; a sender built with an empty URL has no endpoint.
Path    == "/somepath/foo"
BadPath == "/somepath/bad"
SenderUrls == { "http://host/somepath/foo", "http://host/somepath/bad", "" }

\* r.URL.EscapedPath()
EscapedPath(url) ==
    CASE url = "http://host/somepath/foo" -> Path
      [] url = "http://host/somepath/bad" -> BadPath
      [] OTHER -> ""

MimeTypes == { "", "text/plain" }
SecretHeaderNames == { "", "Secret-Header-Name", "Secret-Header-Name-2" }
SecretPaths == { "", "/path" }

\* What a function may be handed: nothing, a []byte, a string, a value that
\* marshals to JSON (a struct with one small integer field A), a channel.
SenderInputs ==
    { [kind |-> "none",   value |-> <<>>],
      [kind |-> "bytes",  value |-> <<116, 101, 115, 116>>],
      [kind |-> "string", value |-> <<116, 101, 115, 116>>],
      [kind |-> "struct", value |-> <<7>>],
      [kind |-> "chan",   value |-> <<>>] }

ErrNoData     == "No Data Received"
ErrMarshal    == "marshaling input data to JSON failed, passed in data must be of type []byte, string, or support marshaling to JSON"
ErrNoHeader   == "SecretPath was specified but no header name was provided"
ErrNoPath     == "HTTP Header Secret Name was provided but no SecretPath was provided"
ErrNotFound   == "FAKE NOT FOUND ERROR"
ErrExport     == "export failed with 404 HTTP status code"
ErrTransport  == "unsupported protocol scheme"

StatusOK       == 200
StatusNotFound == 404

\* json.Marshal of struct{A int}: {"A":7}
MarshalJSON(value) == <<123, 34, 65, 34, 58, 48 + value[1], 125>>

\* Every input is taken to marshal.
CoerceTypeAnything(input) ==
    CASE input.kind \in {"bytes", "string"} -> [ok |-> TRUE, data |-> input.value]
      [] input.kind = "struct" -> [ok |-> TRUE, data |-> MarshalJSON(input.value)]
      [] OTHER -> [ok |-> TRUE, data |-> <<110, 117, 108, 108>>]

\* The payload of an input: a []byte as it is, the bytes of a string, the
\* JSON of anything else that marshals.
CoerceType(input) ==
    CASE input.kind \in {"bytes", "string"} -> [ok |-> TRUE, data |-> input.value]
      [] input.kind = "struct" -> [ok |-> TRUE, data |-> MarshalJSON(input.value)]
      [] OTHER -> [ok |-> FALSE, data |-> <<>>]

\* A secret store that has every key.
GetSecretsAlwaysFound(path, key) ==
    [ok |-> TRUE, err |-> ErrNil, value |-> "value"]

\* mockSecretClient.GetSecrets: fakeDb is {"Secret-Header-Name": "value"}.
GetSecrets(path, key) ==
    IF key = "Secret-Header-Name"
    THEN [ok |-> TRUE, err |-> ErrNil, value |-> "value"]
    ELSE [ok |-> FALSE, err |-> ErrNotFound, value |-> ""]

\* The test server's handler: 404 on badPath, 200 otherwise.
handler(url) ==
    IF EscapedPath(url) = BadPath THEN StatusNotFound ELSE StatusOK

RetryUnset == [set |-> FALSE, data |-> <<>>]

\* The payload is kept whatever the sender was built with.
setRetryDataAlways(persistOnError, data) == [set |-> TRUE, data |-> data]

\* A failed send stores the payload as the Context's retry data if the
\* sender was built with persistOnError.
setRetryData(persistOnError, data) ==
    IF persistOnError THEN [set |-> TRUE, data |-> data] ELSE RetryUnset

\* What a call leaves behind.
Outcome(continue, err, retry, requests) ==
    [continue |-> continue, err |-> err, retryData |-> retry, requests |-> requests]

\* The send of HTTPPost and HTTPPut: the input checks, the secret, the
\* request, the retry data.
httpSend(sender, method, input) ==
    LET exportData == CoerceType(input)
        usingSecrets == sender.SecretHeaderName # "" /\ sender.SecretPath # ""
        secrets == GetSecrets(sender.SecretPath, sender.SecretHeaderName)
        mimeType == IF sender.MimeType = "" THEN ContentTypeJSON ELSE sender.MimeType
        request == [method |-> method, path |-> EscapedPath(sender.URL),
                    body |-> exportData.data, contentType |-> mimeType,
                    secretHeader |-> IF usingSecrets THEN secrets.value ELSE ""]
    IN  CASE input.kind = "none" -> Outcome(FALSE, ErrNoData, RetryUnset, <<>>)
          [] input.kind # "none" /\ ~exportData.ok ->
                 Outcome(FALSE, ErrMarshal, RetryUnset, <<>>)
          [] OTHER ->
             IF sender.SecretPath # "" /\ sender.SecretHeaderName = ""
             THEN Outcome(FALSE, ErrNoHeader, RetryUnset, <<>>)
             ELSE IF sender.SecretHeaderName # "" /\ sender.SecretPath = ""
             THEN Outcome(FALSE, ErrNoPath, RetryUnset, <<>>)
             ELSE IF usingSecrets /\ ~secrets.ok
             THEN Outcome(FALSE, secrets.err,
                          setRetryData(sender.PersistOnError, exportData.data), <<>>)
             ELSE IF sender.URL = ""
             THEN Outcome(FALSE, ErrTransport,
                          setRetryData(sender.PersistOnError, exportData.data), <<>>)
             ELSE IF handler(sender.URL) # StatusOK
             THEN Outcome(FALSE, ErrExport,
                          setRetryData(sender.PersistOnError, exportData.data), <<request>>)
             ELSE Outcome(TRUE, ErrNil, RetryUnset, <<request>>)

\* A call of the sender with a fresh Context.
Call(method) ==
    \E input \in SenderInputs :
        LET out == httpSend(httpSender, method, input)
        IN  /\ httpPc' = "returned"
            /\ httpMethod' = method
            /\ httpInput' = input
            /\ httpContinue' = out.continue
            /\ httpErr' = out.err
            /\ httpRetryData' = out.retryData
            /\ httpRequests' = out.requests
            /\ UNCHANGED httpSender
            /\ UNCHANGED outsideHttp

\* sender.HTTPPost(context, params...)
SenderHTTPPost == Call("POST")

\* sender.HTTPPut(context, params...)
SenderHTTPPut == Call("PUT")

\* NewHTTPSender, NewHTTPSenderWithSecretHeader.
NewHTTPSender ==
    /\ httpSender \in [URL : SenderUrls, MimeType : MimeTypes, PersistOnError : BOOLEAN,
                        SecretHeaderName : SecretHeaderNames, SecretPath : SecretPaths]
    /\ httpPc = "built"
    /\ httpMethod = ""
    /\ httpInput = [kind |-> "none", value |-> <<>>]
    /\ httpContinue = FALSE
    /\ httpErr = ErrNil
    /\ httpRetryData = RetryUnset
    /\ httpRequests = <<>>

\* A sender that is built and never called.
HttpNotStarted ==
    /\ NewHTTPSender
    /\ httpSender = [URL |-> "", MimeType |-> "", PersistOnError |-> FALSE,
                     SecretHeaderName |-> "", SecretPath |-> ""]

NextHttp ==
    \/ SenderHTTPPost
    \/ SenderHTTPPut

\* ================================================ configurable builders ==
\* AppFunctionsSDKConfigurable: each builder takes the parameters map of one
\* configured stage and returns the stage's function, or nil.  Texts are
\* sequences of one-character strings where the builder takes them apart,
\* strings elsewhere.

ValueDescriptors  == "valuedescriptors"
DeviceNames       == "devicenames"
FilterOut         == "filterout"
Key               == "key"
InitVector        == "initvector"
Url               == "url"
MimeType          == "mimetype"
PersistOnError    == "persistonerror"
Cert              == "cert"
SkipVerify        == "skipverify"
Qos               == "qos"
Retain            == "retain"
AutoReconnect     == "autoreconnect"
DeviceName        == "devicename"
ReadingName       == "readingname"
Rule              == "rule"
BatchThreshold    == "batchthreshold"
TimeInterval      == "timeinterval"
SecretHeaderName1 == "secretheadername1"
SecretHeaderName2 == "secretheadername2"
SecretPath        == "secretpath"
BrokerAddress     == "brokeraddress"
ClientID          == "clientid"
Topic             == "topic"
AuthMode          == "authmode"
Tags              == "tags"

\* value, ok := parameters[key]: a key that is absent reads as the zero text.
Opt(values, zero) ==
    { [ok |-> FALSE, value |-> zero] } \cup { [ok |-> TRUE, value |-> v] : v \in values }

\* Texts given for the boolean parameters.
BoolTexts == { "true", "f", "yes", "" }

\* Texts given for the integer parameters: "", 0, 2, -1, 257, 2x.
IntTexts ==
    { <<>>, <<"0">>, <<"2">>, <<"-", "1">>, <<"2", "5", "7">>, <<"2", "x">> }

\* Texts given for the time interval.
IntervalTexts == { "10s", "0s", "-5s", "soon", "" }

\* Texts given for the tags: "", "k:v", "k:v, t", "a:b:c", ":".
TagsTexts ==
    { <<>>,
      <<"k", ":", "v">>,
      <<"k", ":", "v", ",", " ", "t">>,
      <<"a", ":", "b", ":", "c">>,
      <<":">> }

\* strconv.ParseBool
ParseBool(str) ==
    CASE str \in {"1", "t", "T", "TRUE", "true", "True"} -> [ok |-> TRUE, value |-> TRUE]
      [] str \in {"0", "f", "F", "FALSE", "false", "False"} -> [ok |-> TRUE, value |-> FALSE]
      [] OTHER -> [ok |-> FALSE, value |-> FALSE]

DigitValue(c) ==
    CASE c = "0" -> 0 [] c = "1" -> 1 [] c = "2" -> 2 [] c = "3" -> 3 [] c = "4" -> 4
      [] c = "5" -> 5 [] c = "6" -> 6 [] c = "7" -> 7 [] c = "8" -> 8 [] c = "9" -> 9
      [] OTHER -> -1

RECURSIVE ParseDigits(_, _)
ParseDigits(text, acc) ==
    IF text = <<>> THEN acc
    ELSE ParseDigits(Tail(text), 10 * acc + DigitValue(Head(text)))

\* strconv.Atoi: an optional sign and at least one digit; 0 with the error.
Atoi(text) ==
    LET signed == Len(text) > 0 /\ text[1] \in {"+", "-"}
        digits == IF signed THEN Tail(text) ELSE text
    IN  IF Len(digits) = 0 \/ \E i \in 1 .. Len(digits) : DigitValue(digits[i]) < 0
        THEN [ok |-> FALSE, value |-> 0]
        ELSE [ok |-> TRUE,
              value |-> IF signed /\ text[1] = "-"
                        THEN 0 - ParseDigits(digits, 0) ELSE ParseDigits(digits, 0)]

\* time.ParseDuration on the interval texts.
ParseDuration(str) ==
    CASE str = "10s" -> [ok |-> TRUE, value |-> 10]
      [] str = "0s"  -> [ok |-> TRUE, value |-> 0]
      [] str = "-5s" -> [ok |-> TRUE, value |-> 0 - 5]
      [] OTHER -> [ok |-> FALSE, value |-> 0]

\* strings.FieldsFunc(text, sep): the non-empty pieces between separators.
RECURSIVE FieldsFunc(_, _, _)
FieldsFunc(text, sep, field) ==
    IF text = <<>> THEN (IF field = <<>> THEN <<>> ELSE <<field>>)
    ELSE IF Head(text) = sep
         THEN (IF field = <<>> THEN <<>> ELSE <<field>>) \o FieldsFunc(Tail(text), sep, <<>>)
         ELSE FieldsFunc(Tail(text), sep, Append(field, Head(text)))

\* strings.TrimSpace
RECURSIVE TrimSpace(_)
TrimSpace(text) ==
    IF text = <<>> THEN text
    ELSE IF Head(text) = " " THEN TrimSpace(Tail(text))
    ELSE IF text[Len(text)] = " " THEN TrimSpace(SubSeq(text, 1, Len(text) - 1))
    ELSE text

\* util.DeleteEmptyAndTrim
DeleteEmptyAndTrim(fields) ==
    SelectSeq([i \in 1 .. Len(fields) |-> TrimSpace(fields[i])], LAMBDA f : f # <<>>)

\* byte(qos)
Byte(n) == n % 256

\* A stage function, as far as the builders decide it.
Fn(name) ==
    [fn |-> name, persistOnError |-> FALSE, secretHeaderName |-> "", secretPath |-> "",
     qos |-> 0, valid |-> TRUE]

\* return nil
Nil == Fn("nil")

\* A text that does not parse read as false.
OptionalBoolLenient(parameters, key) ==
    IF parameters[key].ok
    THEN [ok |-> TRUE, value |-> ParseBool(parameters[key].value).value]
    ELSE [ok |-> TRUE, value |-> FALSE]

\* The optional boolean parameter key: false when absent.
OptionalBool(parameters, key) ==
    IF parameters[key].ok THEN ParseBool(parameters[key].value)
    ELSE [ok |-> TRUE, value |-> FALSE]

\* The optional integer parameter key: 0 when absent.
OptionalInt(parameters, key) ==
    IF parameters[key].ok THEN Atoi(parameters[key].value)
    ELSE [ok |-> TRUE, value |-> 0]

FilterByDeviceName(parameters) ==
    IF ~parameters[DeviceNames].ok THEN Nil
    ELSE IF ~OptionalBool(parameters, FilterOut).ok THEN Nil
    ELSE Fn("FilterByDeviceName")

FilterByValueDescriptor(parameters) ==
    IF ~parameters[ValueDescriptors].ok THEN Nil
    ELSE IF ~OptionalBool(parameters, FilterOut).ok THEN Nil
    ELSE Fn("FilterByValueDescriptor")

PushToCore(parameters) ==
    IF ~parameters[DeviceName].ok THEN Nil
    ELSE IF ~parameters[ReadingName].ok THEN Nil
    ELSE Fn("PushToCoreData")

EncryptWithAES(parameters) ==
    IF ~parameters[Key].ok THEN Nil
    ELSE IF ~parameters[InitVector].ok THEN Nil
    ELSE Fn("EncryptWithAES")

\* The body HTTPPost and HTTPPut share: NewHTTPSenderWithSecretHeader when
\* both secretheadername1 and secretpath are non-empty, NewHTTPSender
\* otherwise.
HTTPSender(parameters, name) ==
    LET persistOnError == OptionalBool(parameters, PersistOnError)
        secretHeaderName1 == parameters[SecretHeaderName1].value
        secretPath == parameters[SecretPath].value
    IN  IF ~parameters[Url].ok THEN Nil
        ELSE IF ~parameters[MimeType].ok THEN Nil
        ELSE IF ~persistOnError.ok THEN Nil
        ELSE IF secretHeaderName1 # "" /\ secretPath # ""
        THEN [Fn(name) EXCEPT !.persistOnError = persistOnError.value,
                              !.secretHeaderName = secretHeaderName1,
                              !.secretPath = secretPath]
        ELSE [Fn(name) EXCEPT !.persistOnError = persistOnError.value]

HTTPPost(parameters) == HTTPSender(parameters, "HTTPPost")

HTTPPut(parameters) == HTTPSender(parameters, "HTTPPut")

\* skipverify is read without its ok: an empty text is no text.
MQTTSend(parameters) ==
    LET qos == OptionalInt(parameters, Qos)
        retain == OptionalBool(parameters, Retain)
        autoReconnect == OptionalBool(parameters, AutoReconnect)
        persistOnError == OptionalBool(parameters, PersistOnError)
        skipVerify == parameters[SkipVerify].value
    IN  IF ~qos.ok THEN Nil
        ELSE IF ~retain.ok THEN Nil
        ELSE IF ~autoReconnect.ok THEN Nil
        ELSE IF ~persistOnError.ok THEN Nil
        ELSE IF skipVerify # "" /\ ~ParseBool(skipVerify).ok THEN Nil
        ELSE [Fn("MQTTSend") EXCEPT !.persistOnError = persistOnError.value,
                                    !.qos = Byte(qos.value)]

MQTTSecretSend(parameters) ==
    LET qos == OptionalInt(parameters, Qos)
        retain == OptionalBool(parameters, Retain)
        autoReconnect == OptionalBool(parameters, AutoReconnect)
        skipCertVerify == OptionalBool(parameters, SkipVerify)
        persistOnError == OptionalBool(parameters, PersistOnError)
    IN  IF ~parameters[BrokerAddress].ok THEN Nil
        ELSE IF ~parameters[Topic].ok THEN Nil
        ELSE IF ~parameters[SecretPath].ok THEN Nil
        ELSE IF ~parameters[AuthMode].ok THEN Nil
        ELSE IF ~parameters[ClientID].ok THEN Nil
        ELSE IF ~qos.ok THEN Nil
        ELSE IF ~retain.ok THEN Nil
        ELSE IF ~autoReconnect.ok THEN Nil
        ELSE IF ~skipCertVerify.ok THEN Nil
        ELSE IF ~persistOnError.ok THEN Nil
        ELSE [Fn("MQTTSecretSend") EXCEPT !.persistOnError = persistOnError.value,
                                          !.qos = Byte(qos.value),
                                          !.secretPath = parameters[SecretPath].value]

JSONLogic(parameters) ==
    IF ~parameters[Rule].ok THEN Nil ELSE Fn("Evaluate")

\* Each tag of the comma separated list is to be key:value.
AddTags(parameters) ==
    LET tagKeyValues == DeleteEmptyAndTrim(FieldsFunc(parameters[Tags].value, ",", <<>>))
        keyValue(tag) == DeleteEmptyAndTrim(FieldsFunc(tag, ":", <<>>))
    IN  IF ~parameters[Tags].ok THEN Nil
        ELSE IF \E i \in 1 .. Len(tagKeyValues) :
                   \/ Len(keyValue(tagKeyValues[i])) # 2
                   \/ Len(keyValue(tagKeyValues[i])[1]) = 0
                   \/ Len(keyValue(tagKeyValues[i])[2]) = 0
        THEN Nil
        ELSE Fn("AddTags")

\* transforms.NewBatchByCount, NewBatchByTime, NewBatchByTimeAndCount return
\* an error for a threshold that is not positive and for an interval that
\* is not a positive duration.
NewBatchByCount(thresholdValue) == thresholdValue > 0

NewBatchByTime(timeInterval) ==
    ParseDuration(timeInterval).ok /\ ParseDuration(timeInterval).value > 0

NewBatchByTimeAndCount(timeInterval, thresholdValue) ==
    NewBatchByTime(timeInterval) /\ NewBatchByCount(thresholdValue)

\* return transform.Batch: the constructor's error is logged and the method
\* value is taken of whatever the constructor returned with it; onFailed is
\* what that does, "function" or "panic".
MethodValue(constructed, onFailed) ==
    IF constructed THEN Fn("Batch")
    ELSE IF onFailed = "panic" THEN Fn("panic")
    ELSE [Fn("Batch") EXCEPT !.valid = FALSE]

BatchByCount(parameters, onFailed) ==
    LET thresholdValue == Atoi(parameters[BatchThreshold].value)
    IN  IF ~parameters[BatchThreshold].ok THEN Nil
        ELSE IF ~thresholdValue.ok THEN Nil
        ELSE MethodValue(NewBatchByCount(thresholdValue.value), onFailed)

BatchByTime(parameters, onFailed) ==
    IF ~parameters[TimeInterval].ok THEN Nil
    ELSE MethodValue(NewBatchByTime(parameters[TimeInterval].value), onFailed)

\* The error of Atoi is logged and the builder goes on with its 0.
BatchByTimeAndCount(parameters, onFailed) ==
    LET thresholdValue == Atoi(parameters[BatchThreshold].value)
    IN  IF ~parameters[TimeInterval].ok THEN Nil
        ELSE IF ~parameters[BatchThreshold].ok THEN Nil
        ELSE MethodValue(NewBatchByTimeAndCount(parameters[TimeInterval].value,
                                                thresholdValue.value), onFailed)

\* The parameters maps given to each builder.
FilterByDeviceNameParameters ==
    [devicenames : Opt({"d1, d2"}, ""), filterout : Opt(BoolTexts, "")]

FilterByValueDescriptorParameters ==
    [valuedescriptors : Opt({"v1"}, ""), filterout : Opt(BoolTexts, "")]

PushToCoreParameters ==
    [devicename : Opt({"d1"}, ""), readingname : Opt({"r1"}, "")]

EncryptWithAESParameters ==
    [key : Opt({"k"}, ""), initvector : Opt({"iv"}, "")]

HTTPParameters ==
    [url : Opt({"http://host/somepath/foo"}, ""), mimetype : Opt({"application/json"}, ""),
     persistonerror : Opt(BoolTexts, ""),
     secretheadername1 : Opt({"", "Secret-Header-Name"}, ""),
     secretheadername2 : Opt({"Second-Header"}, ""),
     secretpath : Opt({"", "/path"}, "")]

MQTTSendParameters ==
    [cert : Opt({"c.pem"}, ""), key : Opt({"k.pem"}, ""),
     skipverify : Opt({"true", "yes", ""}, ""),
     qos : Opt({<<"2">>, <<"2", "5", "7">>, <<"-", "1">>, <<"2", "x">>}, <<>>),
     retain : Opt({"f", "yes"}, ""), autoreconnect : Opt({"true", ""}, ""),
     persistonerror : Opt(BoolTexts, "")]

MQTTSecretSendParameters ==
    [brokeraddress : Opt({"tcp://b:1883"}, ""), topic : Opt({"t"}, ""),
     secretpath : Opt({"/mqtt"}, ""), authmode : Opt({"none"}, ""),
     clientid : Opt({"c1"}, ""),
     skipverify : Opt({"true", ""}, ""),
     qos : Opt({<<"2">>, <<"2", "5", "7">>, <<"-", "1">>, <<"2", "x">>}, <<>>),
     retain : Opt({"f", "yes"}, ""), autoreconnect : Opt({"true", ""}, ""),
     persistonerror : Opt({"true", "yes"}, "")]

JSONLogicParameters == [rule : Opt({"{}"}, "")]

AddTagsParameters == [tags : Opt(TagsTexts, <<>>)]

BatchByCountParameters == [batchthreshold : Opt(IntTexts, <<>>)]

BatchByTimeParameters == [timeinterval : Opt(IntervalTexts, "")]

BatchByTimeAndCountParameters ==
    [timeinterval : Opt(IntervalTexts, ""), batchthreshold : Opt(IntTexts, <<>>)]

\* The configuration loader calls one builder with the stage's parameters.
Built(stage, parameters, result) ==
    /\ cfgStage = ""
    /\ cfgStage' = stage
    /\ cfgParameters' = parameters
    /\ cfgResult' = result
    /\ UNCHANGED outsideCfg

ConfigureFilterByDeviceName ==
    \E parameters \in FilterByDeviceNameParameters :
        Built("FilterByDeviceName", parameters, FilterByDeviceName(parameters))

ConfigureFilterByValueDescriptor ==
    \E parameters \in FilterByValueDescriptorParameters :
        Built("FilterByValueDescriptor", parameters, FilterByValueDescriptor(parameters))

ConfigurePushToCore ==
    \E parameters \in PushToCoreParameters :
        Built("PushToCore", parameters, PushToCore(parameters))

ConfigureEncryptWithAES ==
    \E parameters \in EncryptWithAESParameters :
        Built("EncryptWithAES", parameters, EncryptWithAES(parameters))

ConfigureHTTPPost ==
    \E parameters \in HTTPParameters :
        Built("HTTPPost", parameters, HTTPPost(parameters))

ConfigureHTTPPut ==
    \E parameters \in HTTPParameters :
        Built("HTTPPut", parameters, HTTPPut(parameters))

ConfigureMQTTSend ==
    \E parameters \in MQTTSendParameters :
        Built("MQTTSend", parameters, MQTTSend(parameters))

ConfigureMQTTSecretSend ==
    \E parameters \in MQTTSecretSendParameters :
        Built("MQTTSecretSend", parameters, MQTTSecretSend(parameters))

ConfigureJSONLogic ==
    \E parameters \in JSONLogicParameters :
        Built("JSONLogic", parameters, JSONLogic(parameters))

ConfigureAddTags ==
    \E parameters \in AddTagsParameters :
        Built("AddTags", parameters, AddTags(parameters))

ConfigureBatchByCount ==
    \E parameters \in BatchByCountParameters, onFailed \in {"function", "panic"} :
        Built("BatchByCount", parameters, BatchByCount(parameters, onFailed))

ConfigureBatchByTime ==
    \E parameters \in BatchByTimeParameters, onFailed \in {"function", "panic"} :
        Built("BatchByTime", parameters, BatchByTime(parameters, onFailed))

ConfigureBatchByTimeAndCount ==
    \E parameters \in BatchByTimeAndCountParameters, onFailed \in {"function", "panic"} :
        Built("BatchByTimeAndCount", parameters, BatchByTimeAndCount(parameters, onFailed))

\* No builder has been called.
InitCfg ==
    /\ cfgStage = ""
    /\ cfgParameters = <<>>
    /\ cfgResult = Nil

NextCfg ==
    \/ ConfigureFilterByDeviceName
    \/ ConfigureFilterByValueDescriptor
    \/ ConfigurePushToCore
    \/ ConfigureEncryptWithAES
    \/ ConfigureHTTPPost
    \/ ConfigureHTTPPut
    \/ ConfigureMQTTSend
    \/ ConfigureMQTTSecretSend
    \/ ConfigureJSONLogic
    \/ ConfigureAddTags
    \/ ConfigureBatchByCount
    \/ ConfigureBatchByTime
    \/ ConfigureBatchByTimeAndCount

\* ==================================================== Batch Accumulator ==
\* The combined count and time policy: invocations append and flush at the
\* threshold, the timer flushes whatever is buffered; both work on the
\* buffer under the same exclusive-access guard.

Invokers  == 1 .. NumInvokers
TimerTask == 0
NoTask    == 0 - 1
Tasks     == Invokers \cup {TimerTask}

\* A guard that excludes nobody.
GuardFreeAlways(holder) == TRUE

\* The guard can be taken.
GuardFree(holder) == holder = NoTask

\* An invocation takes the guard and appends its input to the buffer.
BatchAppend(i) ==
    /\ taskPc[i] = "idle"
    /\ GuardFree(batchGuard)
    /\ appended < MaxItems
    /\ batchGuard' = i
    /\ appended' = appended + 1
    /\ batchBuffer' = Append(batchBuffer, appended + 1)
    /\ taskPc' = [taskPc EXCEPT ![i] = "appended"]
    /\ UNCHANGED <<batchThreshold, taskJoined, emitted, lastFire>>
    /\ UNCHANGED outsideBatch

\* If the buffer has reached the threshold the invocation joins it into one
\* output; otherwise it releases the guard and returns true with no output.
BatchCheck(i) ==
    /\ taskPc[i] = "appended"
    /\ IF Len(batchBuffer) >= batchThreshold
       THEN /\ taskJoined' = [taskJoined EXCEPT ![i] = batchBuffer]
            /\ taskPc' = [taskPc EXCEPT ![i] = "joined"]
            /\ UNCHANGED batchGuard
       ELSE /\ taskPc' = [taskPc EXCEPT ![i] = "idle"]
            /\ batchGuard' = NoTask
            /\ UNCHANGED taskJoined
    /\ UNCHANGED <<batchThreshold, batchBuffer, appended, emitted, lastFire>>
    /\ UNCHANGED outsideBatch

\* The task clears the buffer, releases the guard and emits the batch: an
\* invocation returns true with it, the timer hands it to its emitter.
BatchFlush(t) ==
    /\ taskPc[t] = "joined"
    /\ emitted' = Append(emitted, [by |-> t, items |-> taskJoined[t]])
    /\ batchBuffer' = <<>>
    /\ batchGuard' = NoTask
    /\ taskPc' = [taskPc EXCEPT ![t] = "idle"]
    /\ taskJoined' = [taskJoined EXCEPT ![t] = <<>>]
    /\ UNCHANGED <<batchThreshold, appended, lastFire>>
    /\ UNCHANGED outsideBatch

\* The timer fires and takes the guard: a buffer that is not empty is joined
\* for a flush, an empty one is left alone.
TimerFire ==
    /\ taskPc[TimerTask] = "idle"
    /\ GuardFree(batchGuard)
    /\ IF batchBuffer # <<>>
       THEN /\ taskJoined' = [taskJoined EXCEPT ![TimerTask] = batchBuffer]
            /\ taskPc' = [taskPc EXCEPT ![TimerTask] = "joined"]
            /\ batchGuard' = TimerTask
            /\ lastFire' = "flush"
       ELSE /\ lastFire' = "empty"
            /\ UNCHANGED <<taskJoined, taskPc, batchGuard>>
    /\ UNCHANGED <<batchThreshold, batchBuffer, appended, emitted>>
    /\ UNCHANGED outsideBatch

\* The accumulator as built: an empty buffer, nobody holding the guard.
InitBatch ==
    /\ batchThreshold \in 1 .. MaxThreshold
    /\ batchBuffer = <<>>
    /\ batchGuard = NoTask
    /\ taskPc = [t \in Tasks |-> "idle"]
    /\ taskJoined = [t \in Tasks |-> <<>>]
    /\ appended = 0
    /\ emitted = <<>>
    /\ lastFire = "none"

\* An accumulator that no invocation reaches.
BatchNotStarted ==
    /\ InitBatch
    /\ batchThreshold = 1

NextBatch ==
    \/ \E i \in Invokers : BatchAppend(i)
    \/ \E i \in Invokers : BatchCheck(i)
    \/ \E t \in Tasks : BatchFlush(t)
    \/ TimerFire

\* ======================================================= specifications ==

\* The publisher runs on its own: the trigger's variables only stand by.
\* The components no specification below is about.
Standby == HttpNotStarted /\ InitCfg /\ BatchNotStarted

InitSpecBP == InitBP /\ MqttNotStarted /\ RuntimeNotStarted /\ Standby

SpecBP == InitSpecBP /\ [][NextBP]_vars

\* The consumer keeps draining the queue.
SpecBPFair == SpecBP /\ WF_vars(Receive)

\* A publisher that is constructed and never used.
BPNotStarted ==
    /\ InitBP
    /\ capacity = 0

NextMqtt ==
    \/ \E background \in {"nil", "chan"} : Initialize(background)
    \/ InitializeReturn
    \/ onConnectHandler
    \/ Deferred
    \/ messageHandlerStart
    \/ \E h \in 1 .. MaxMsgs : messageHandlerFinish(h)

\* The trigger runs on its own: the publisher's variables only stand by.
InitSpecMqtt == InitMqtt /\ BPNotStarted /\ RuntimeNotStarted /\ Standby

\* The Runtime is invoked by a running trigger.
InitSpecRuntime == InitRuntime /\ MqttRunning /\ BPNotStarted /\ Standby

\* The sender is called on its own.
InitSpecHttp ==
    /\ NewHTTPSender
    /\ BPNotStarted /\ MqttNotStarted /\ RuntimeNotStarted /\ InitCfg /\ BatchNotStarted

\* The builders are called on their own.
InitSpecCfg ==
    /\ InitCfg
    /\ BPNotStarted /\ MqttNotStarted /\ RuntimeNotStarted /\ HttpNotStarted
    /\ BatchNotStarted

SpecCfg == InitSpecCfg /\ [][NextCfg]_vars

\* The accumulator runs on its own.  The timer keeps firing, and a task that
\* holds the guard goes on to release it.
InitSpecBatch ==
    /\ InitBatch
    /\ BPNotStarted /\ MqttNotStarted /\ RuntimeNotStarted /\ HttpNotStarted /\ InitCfg

SpecBatch ==
    /\ InitSpecBatch
    /\ [][NextBatch]_vars
    /\ WF_vars(TimerFire)
    /\ WF_vars(\E i \in Invokers : BatchCheck(i))
    /\ WF_vars(\E t \in Tasks : BatchFlush(t))

SpecHttp == InitSpecHttp /\ [][NextHttp]_vars

SpecRuntime == InitSpecRuntime /\ [][NextRuntime]_vars

SpecMqtt == InitSpecMqtt /\ [][NextMqtt]_vars

\* ------------------------------------------- Background Publisher: claims

\* Every element that is on the channel or was taken off it, oldest first.
AllItems == received \o buf \o sendq

QueueBounded == Len(buf) <= capacity

\* Each Publish call made so far has exactly one element, and there is no other.
NoLoss ==
    /\ Len(AllItems) = TotalCalls
    /\ \A p \in Producers : \A k \in 1 .. ncalls[p] :
           Cardinality({ i \in 1 .. Len(AllItems) :
                           AllItems[i].src = p /\ AllItems[i].seq = k }) = 1

\* A step of producer p's Publish calls: a call made on a full queue parks and
\* does not return; a parked call returns only in a step in which the consumer
\* takes an element, and its own element is then in the buffer (or, on an
\* unbuffered channel, is the element the consumer took).
BlockedUntilRemoved ==
    \A p \in Producers :
        /\ (ncalls'[p] = ncalls[p] + 1 /\ Len(buf) >= capacity)
               => (pubState'[p] = "blocked" /\ nreturned'[p] = nreturned[p])
        /\ (pubState[p] = "blocked" /\ nreturned'[p] # nreturned[p])
               => /\ Len(received') = Len(received) + 1
                  /\ pubState'[p] = "idle"
                  /\ \E it \in Range(buf') \cup {received'[Len(received')]} :
                         it.src = p /\ it.seq = ncalls[p]

\* C1: backpressure. In every reachable state the queue holds at most
\* `capacity` envelopes and every envelope published is still on the channel
\* or was received (none dropped, none overwritten); a Publish call made while
\* the queue holds `capacity` envelopes does not return until the consumer has
\* removed an envelope, and its envelope is then enqueued.
C1_Backpressure == [](QueueBounded /\ NoLoss) /\ [][BlockedUntilRemoved]_vars

\* A call that had to park has returned and its envelope sits in the buffer.
C1_Witness ==
    \E i \in 1 .. Len(buf) :
        /\ buf[i].parked
        /\ pubState[buf[i].src] = "idle"
        /\ nreturned[buf[i].src] = ncalls[buf[i].src]

AllCalled == \A p \in Producers : ncalls[p] >= 1

AllDone ==
    /\ \A p \in Producers : pubState[p] = "idle" /\ nreturned[p] = ncalls[p]
    /\ Len(received) = TotalCalls
    /\ buf = <<>> /\ sendq = <<>>

\* C2: liveness. With the consumer draining the queue, every parked Publish
\* call eventually returns, and once all N producers have called Publish on a
\* queue of capacity C < N, eventually every call has returned and every
\* envelope has been received.
C2_Liveness ==
    /\ \A p \in Producers : (pubState[p] = "blocked") ~> (pubState[p] = "idle")
    /\ (AllCalled /\ capacity < NumProducers) ~> AllDone

\* All N producers called, some call had to park, and everything was received.
C2_Witness ==
    /\ AllCalled /\ capacity < NumProducers
    /\ AllDone
    /\ \E i \in 1 .. Len(received) : received[i].parked

Returned == triggerPc = "returned"

\* C4: a subscribe failure is fatal to Initialize: once the subscribe has
\* failed, an Initialize that has returned has returned an error and no
\* teardown action, and the trigger is not subscribed and handles no message.
C4_SubscribeFailureFatal ==
    /\ (subscribeState = "failed" /\ Returned)
           => (initErr # ErrNil /\ ~initDeferred)
    /\ subscribeState = "failed" => handlers = <<>>

\* C5: a connection failure is fatal to Initialize: when the connect has
\* failed, Initialize has returned the connect error and no teardown action,
\* trigger.mqttClient is nil, the trigger never subscribes and no message
\* handler is ever invoked.
C5_ConnectFailureFatal ==
    clientStatus = "connectFailed"
        => /\ Returned
           /\ initErr = ErrConnect
           /\ ~initDeferred
           /\ triggerMqttClient = NilClient
           /\ subscribeState = "none" /\ ~onConnectPending
           /\ handlers = <<>> /\ ~crashed

\* A returned Initialize whose connect failed, on a valid configuration.
C5_Witness ==
    /\ clientStatus = "connectFailed"
    /\ Returned
    /\ connectCalls = 1
    /\ initBackground = "nil"

\* C6: Initialize called with a non-nil background channel returns an error
\* and no teardown action, without creating a client or connecting, whatever
\* the configuration is.
C6_BackgroundRejected ==
    initBackground = "chan"
        => /\ Returned
           /\ initErr # ErrNil
           /\ ~initDeferred
           /\ factoryCalls = 0 /\ connectCalls = 0
           /\ clientStatus = "absent" /\ triggerMqttClient = NilClient
           /\ subscribeState = "none" /\ ~onConnectPending

\* The background channel is the only thing wrong with the call.
C6_Witness ==
    /\ initBackground = "chan"
    /\ Returned
    /\ configuration.SubscribeTopic # ""
    /\ UrlParses(configuration.Url)
    /\ configuration.ConnectTimeout = ""
    /\ initErr = ErrBackground

\* C7: with an empty subscribe topic Initialize returns an error and no
\* teardown action, without creating a client, connecting or subscribing.
C7_MissingTopicFailsFast ==
    (configuration.SubscribeTopic = "" /\ triggerPc # "start")
        => /\ Returned
           /\ initErr # ErrNil
           /\ ~initDeferred
           /\ factoryCalls = 0 /\ connectCalls = 0
           /\ clientStatus = "absent" /\ triggerMqttClient = NilClient
           /\ subscribeState = "none" /\ ~onConnectPending

\* The empty topic is the only thing wrong with the call.
C7_Witness ==
    /\ configuration.SubscribeTopic = ""
    /\ initBackground = "nil"
    /\ UrlParses(configuration.Url)
    /\ Returned
    /\ initErr = ErrMissingTopic

InFlight == { h \in 1 .. Len(handlers) : handlers[h].pc = "processing" }

\* C8: an Initialize that succeeds returns a teardown action; the action,
\* invoked once, disconnects the client that Initialize connected; and it can
\* run whatever message handlers are in flight.
C8_Teardown ==
    /\ (Returned /\ initErr = ErrNil) => initDeferred
    /\ initDeferred => (connectCalls = 1 /\ triggerMqttClient = TheClient)
    /\ tornDown
           => /\ ~crashed
              /\ clientStatus = "disconnected"
              /\ Cardinality({ i \in 1 .. Len(disconnects) : disconnects[i].by = "deferred" }) = 1
              /\ \A i \in 1 .. Len(disconnects) : disconnects[i].client = TheClient
    /\ (initDeferred /\ ~tornDown /\ ~crashed) => ENABLED Deferred

\* The teardown has run while a message handler was still in flight.
C8_Witness ==
    /\ tornDown
    /\ InFlight # {}
    /\ clientStatus = "disconnected"

\* C9: a message handler publishes at most once, and only to the publish
\* topic, only that invocation's output data, and only if the Runtime
\* returned no error, the output data is non-empty and a publish topic is
\* configured; a handler that returned under those conditions has published.
C9_ResponsePublish ==
    \A h \in 1 .. Len(handlers) :
        LET r == handlers[h]
            due == /\ r.messageError = ErrNil
                   /\ r.edgexContext.OutputData # <<>>
                   /\ configuration.PublishTopic # ""
        IN  /\ Len(r.publishes) <= 1
            /\ r.pc = "processing" => r.publishes = <<>>
            /\ r.pc = "done" => (Len(r.publishes) = 1 <=> due)
            /\ \A i \in 1 .. Len(r.publishes) :
                   /\ r.publishes[i].topic = configuration.PublishTopic
                   /\ r.publishes[i].data = r.edgexContext.OutputData

\* Two handlers returned: one published its own output, the other had
\* output data and an error and published nothing.
C9_Witness ==
    \E h, g \in 1 .. Len(handlers) :
        /\ handlers[h].pc = "done" /\ handlers[g].pc = "done"
        /\ Len(handlers[h].publishes) = 1
        /\ handlers[h].publishes[1].data = <<112, 113>>
        /\ handlers[g].publishes = <<>>
        /\ handlers[g].messageError # ErrNil
        /\ handlers[g].edgexContext.OutputData = <<111>>

C19_NeverCrashes == ~crashed

FailedPublish(r) ==
    \E i \in 1 .. Len(r.publishes) : r.publishes[i].tokenError # ErrNil

\* The step in which handler h makes a publish that fails.
PublishFailsIn(h) ==
    /\ h \in 1 .. Len(handlers)
    /\ handlers[h].pc = "processing"
    /\ FailedPublish(handlers'[h])

\* C20: a handler whose response publish failed has made that one attempt
\* and no other and has returned; the step in which the publish fails leaves
\* the subscription, the connection and the process as they were, so that a
\* message delivered next is handled as any other.
C20_FailedPublishIgnored ==
    /\ [](\A h \in 1 .. Len(handlers) :
             FailedPublish(handlers[h])
                 => (Len(handlers[h].publishes) = 1 /\ handlers[h].pc = "done"))
    /\ [][\A h \in 1 .. MaxMsgs :
             PublishFailsIn(h)
                 => /\ handlers'[h].pc = "done"
                    /\ UNCHANGED <<subscribeState, clientStatus, crashed,
                                   disconnects, triggerMqttClient>>
                    /\ (subscribeState = "subscribed" /\ clientStatus = "connected"
                          /\ Len(handlers) < MaxMsgs)
                           => ENABLED messageHandlerStart]_vars

\* A response publish failed on a live connection; a message delivered after
\* that handler had returned was handled and its response published.
C20_Witness ==
    \E h, g \in 1 .. Len(handlers) :
        /\ handlers[h].publishes # <<>>
        /\ handlers[h].publishes[1].tokenError = "publish timed out"
        /\ h \in handlers[g].startedAfter
        /\ handlers[g].pc = "done"
        /\ Len(handlers[g].publishes) = 1
        /\ handlers[g].publishes[1].tokenError = ErrNil
        /\ subscribeState = "subscribed"

\* The state of the trigger that every handler reads.
triggerState == <<configuration, triggerMqttClient, clientStatus, subscribeState,
                  disconnects, tornDown>>

\* Handler h holds a Context and an Envelope of its own: both carry the one
\* identifier generated for its message, which no other handler has, and the
\* Envelope carries the payload of its message.
OwnContextAndEnvelope(h) ==
    LET r == handlers[h]
    IN  /\ r.edgexContext.CorrelationID = r.envelope.CorrelationID
        /\ r.envelope.Payload = r.data
        /\ \A g \in 1 .. Len(handlers) :
               g # h => /\ handlers[g].edgexContext.CorrelationID # r.edgexContext.CorrelationID
                        /\ handlers[g].envelope.CorrelationID # r.envelope.CorrelationID

\* What handler h published is the output data of its own Context.
OwnOutputPublished(h) ==
    LET r == handlers[h]
    IN  \A i \in 1 .. Len(r.publishes) : r.publishes[i].data = r.edgexContext.OutputData

\* A step of a handler: a message is taken up, or handler h goes on.
HandlerStep(h) ==
    \/ h = Len(handlers) + 1 /\ Len(handlers') = h
    \/ h \in 1 .. Len(handlers) /\ handlers'[h] # handlers[h]

HaltedAt == { k \in 1 .. Len(rtExecuted) : ~rtExecuted[k].ret.shouldContinue }

\* C11: the functions run in chain order; once function k has returned
\* shouldContinue = false no function after k is executed, the Context's
\* output data stays unset and the trigger publishes no response.
C11_ShortCircuit ==
    /\ \A i \in 1 .. Len(rtExecuted) : rtExecuted[i].fn = i
    /\ Len(rtExecuted) <= pipelineLen
    /\ \A k \in HaltedAt :
           /\ Len(rtExecuted) = k
           /\ rtPc \in {"stopped", "responded"}
           /\ rtOutputData = <<>>
           /\ rtPublishes = <<>>

\* The second of three functions halted the chain after the first had
\* produced a value; a publish topic is configured and the handler returned.
C11_Witness ==
    /\ pipelineLen = 3
    /\ HaltedAt = {2}
    /\ rtExecuted[1].ret.result = <<111>>
    /\ configuration.PublishTopic # ""
    /\ rtPc = "responded"

\* --------------------------------------------------- HTTP sender: claims

HttpReturned == httpPc = "returned"

\* The call had a payload to send.
HasPayload == httpInput.kind \in {"bytes", "string", "struct"}

\* The payload of the call: the bytes given, or the JSON of the value given.
PayloadSent ==
    IF httpInput.kind = "struct"
    THEN <<123, 34, 65, 34, 58, 48 + httpInput.value[1], 125>>
    ELSE httpInput.value

\* The send failed: the endpoint answered 404 or could not be reached, or
\* the secret could not be retrieved.
SendFailed == httpErr \in {ErrExport, ErrTransport, ErrNotFound}

\* The sender is configured with a secret the store does not have.
SecretMissing ==
    /\ httpSender.SecretPath # ""
    /\ httpSender.SecretHeaderName \notin {"", "Secret-Header-Name"}

\* C12: after an HTTPPost or HTTPPut call the Context's retry data is set
\* iff the send failed and the sender was built with persistOnError = true;
\* when set it is exactly the payload of the call; a failed send returns
\* (false, error), and a successful send leaves the retry data unset.
C12_PersistOnError ==
    HttpReturned =>
        /\ httpRetryData.set <=> (SendFailed /\ httpSender.PersistOnError)
        /\ httpRetryData.set => (HasPayload /\ httpRetryData.data = PayloadSent)
        /\ SendFailed => (~httpContinue /\ httpErr # ErrNil)
        /\ httpContinue => ~httpRetryData.set
        /\ (httpRequests # <<>> /\ httpRequests[1].path = BadPath) => SendFailed

\* A POST to the bad path by a sender built with persistOnError = true came
\* back with the payload kept as retry data.
C12_Witness ==
    /\ HttpReturned
    /\ httpMethod = "POST"
    /\ httpSender.PersistOnError
    /\ httpRequests # <<>>
    /\ httpRequests[1].path = BadPath
    /\ httpRetryData = [set |-> TRUE, data |-> <<116, 101, 115, 116>>]
    /\ ~httpContinue

\* C16: a call with no input returns (false, "No Data Received"); a call
\* whose input is neither bytes nor a string nor marshalable to JSON returns
\* (false, the marshaling error); in both cases no request is made.
C16_InputPrecondition ==
    HttpReturned =>
        /\ httpInput.kind = "none"
               => (~httpContinue /\ httpErr = "No Data Received" /\ httpRequests = <<>>)
        /\ httpInput.kind = "chan"
               => /\ ~httpContinue
                  /\ httpErr = "marshaling input data to JSON failed, passed in data must be of type []byte, string, or support marshaling to JSON"
                  /\ httpRequests = <<>>

\* A PUT was handed a channel, by a sender whose endpoint would have
\* answered 200.
C16_Witness ==
    /\ HttpReturned
    /\ httpMethod = "PUT"
    /\ httpInput.kind = "chan"
    /\ httpSender.URL = "http://host/somepath/foo"
    /\ httpSender.SecretPath = ""
    /\ httpSender.SecretHeaderName = ""

C13_SecretMismatchRejected ==
    cfgStage \in {"HTTPPost", "HTTPPut"} =>
        LET header == cfgParameters[SecretHeaderName1].value
            path == cfgParameters[SecretPath].value
        IN  ((path # "" /\ header = "") \/ (header # "" /\ path = ""))
                => cfgResult = Nil

\* The count threshold is missing, is not an integer, or is not positive.
ThresholdInvalid ==
    \/ ~cfgParameters[BatchThreshold].ok
    \/ ~Atoi(cfgParameters[BatchThreshold].value).ok
    \/ Atoi(cfgParameters[BatchThreshold].value).value <= 0

\* The time interval is missing or does not parse.
IntervalInvalid ==
    \/ ~cfgParameters[TimeInterval].ok
    \/ ~ParseDuration(cfgParameters[TimeInterval].value).ok

\* C14: BatchByCount and BatchByTimeAndCount with a missing, non-integer,
\* zero or negative threshold, and BatchByTime and BatchByTimeAndCount with
\* a missing or unparsable interval, return no function.
C14_BatchValidation ==
    /\ cfgStage = "BatchByCount" => (ThresholdInvalid => cfgResult = Nil)
    /\ cfgStage = "BatchByTime" => (IntervalInvalid => cfgResult = Nil)
    /\ cfgStage = "BatchByTimeAndCount"
           => ((ThresholdInvalid \/ IntervalInvalid) => cfgResult = Nil)

SenderAndFilterStages ==
    { "HTTPPost", "HTTPPut", "MQTTSend", "MQTTSecretSend", "FilterByDeviceName",
      "FilterByValueDescriptor", "PushToCore", "EncryptWithAES", "JSONLogic", "AddTags" }

Required(stage) ==
    CASE stage = "FilterByDeviceName" -> {DeviceNames}
      [] stage = "FilterByValueDescriptor" -> {ValueDescriptors}
      [] stage = "PushToCore" -> {DeviceName, ReadingName}
      [] stage = "EncryptWithAES" -> {Key, InitVector}
      [] stage \in {"HTTPPost", "HTTPPut"} -> {Url, MimeType}
      [] stage = "MQTTSecretSend" -> {BrokerAddress, Topic, SecretPath, AuthMode, ClientID}
      [] stage = "JSONLogic" -> {Rule}
      [] stage = "AddTags" -> {Tags}
      [] OTHER -> {}

BoolKeys == {FilterOut, PersistOnError, Retain, AutoReconnect, SkipVerify}
IntKeys  == {Qos}

RequiredMissing == \E k \in Required(cfgStage) : ~cfgParameters[k].ok

\* Parameter k is supplied and its text does not parse.
Unparsable(k) ==
    /\ cfgParameters[k].ok
    /\ IF k \in IntKeys THEN ~Atoi(cfgParameters[k].value).ok
                         ELSE ~ParseBool(cfgParameters[k].value).ok

SuppliedUnparsable ==
    \E k \in (BoolKeys \cup IntKeys) \cap DOMAIN cfgParameters : Unparsable(k)

\* As SuppliedUnparsable, an empty skipverify of MQTTSend left out.
SuppliedUnparsableNonEmpty ==
    \E k \in (BoolKeys \cup IntKeys) \cap DOMAIN cfgParameters :
        /\ Unparsable(k)
        /\ ~(cfgStage = "MQTTSend" /\ k = SkipVerify /\ cfgParameters[k].value = "")

\* The tags text has an entry that is not key:value.
TagsMalformed ==
    /\ cfgStage = "AddTags"
    /\ cfgParameters[Tags].ok
    /\ LET entries == FieldsFunc(cfgParameters[Tags].value, ",", <<>>)
       IN  \E i \in 1 .. Len(entries) :
               /\ TrimSpace(entries[i]) # <<>>
               /\ Len(DeleteEmptyAndTrim(FieldsFunc(TrimSpace(entries[i]), ":", <<>>))) # 2

\* persistOnError is false when the parameter is absent and the parsed value
\* when it is given.
PersistOnErrorAsGiven ==
    PersistOnError \in DOMAIN cfgParameters =>
        cfgResult.persistOnError =
            (cfgParameters[PersistOnError].ok
                /\ cfgParameters[PersistOnError].value \in {"1", "t", "T", "TRUE", "true", "True"})

QosAsked ==
    IF cfgParameters[Qos].ok THEN Atoi(cfgParameters[Qos].value).value ELSE 0

\* C22: whenever MQTTSend or MQTTSecretSend is given a qos that parses as an
\* integer, or no qos, it returns either no function or a sender whose QoS
\* is that integer (0 for no qos): the QoS is never another number.
C22_QosCarriedUnchanged ==
    (/\ cfgStage \in {"MQTTSend", "MQTTSecretSend"}
     /\ cfgParameters[Qos].ok => Atoi(cfgParameters[Qos].value).ok)
        => (cfgResult = Nil \/ cfgResult.qos = QosAsked)

\* ------------------------------------------------ Batch Accumulator: claims

\* The emitted batches that hold payload k.
BatchesWith(k) ==
    { b \in 1 .. Len(emitted) :
        \E j \in 1 .. Len(emitted[b].items) : emitted[b].items[j] = k }

InBuffer(k) == \E j \in 1 .. Len(batchBuffer) : batchBuffer[j] = k

\* Payload k is in the buffer or in one emitted batch, never in both and
\* never in two batches.
FlushedOnce ==
    \A k \in 1 .. appended :
        /\ Cardinality(BatchesWith(k)) <= 1
        /\ InBuffer(k) <=> BatchesWith(k) = {}

NoEmptyBatch == \A b \in 1 .. Len(emitted) : emitted[b].items # <<>>

AllEmitted == \A k \in 1 .. appended : Cardinality(BatchesWith(k)) = 1

\* C18: under any interleaving of invocations and timer fires no payload is
\* emitted twice or lost and no batch is empty; a flush by one path leaves
\* the other an empty buffer; in the end every payload appended is in
\* exactly one emitted batch.
C18_FlushedOnce ==
    /\ [](FlushedOnce /\ NoEmptyBatch)
    /\ [][\A t \in Tasks : (taskPc[t] = "joined" /\ taskPc'[t] = "idle")
                               => batchBuffer' = <<>>]_vars
    /\ <>[]AllEmitted

\* The count path flushed one set, the timer another, and the timer then
\* fired on the empty buffer: two batches, nothing buffered.
C18_Witness ==
    /\ Len(emitted) = 2
    /\ \E b, c \in 1 .. 2 : emitted[b].by = TimerTask /\ emitted[c].by \in Invokers
    /\ lastFire = "empty"
    /\ batchBuffer = <<>>
    /\ appended = 3

====
